---- MODULE Spec2Model ----
(***************************************************************************)
(* Verification model of the Alloy CRM demo:                               *)
(*   - pages/api/contacts.js       (the Contact Gateway handler)           *)
(*   - pages/api/get-jwt-token.js  (the Session Bridge handler)            *)
(*   - page.js (Home), ConnectApp, ContactList, CreateContact              *)
(*     (the Presentation Shell)                                            *)
(*                                                                         *)
(* Strings the code interpolates into URLs are sequences of one-character  *)
(* strings, so that the unescaped interpolation and the URL parsing on the *)
(* receiving side are computed instead of assumed.  Every other JS value   *)
(* is a record, an atom string or a sequence of records.                   *)
(***************************************************************************)
EXTENDS Integers, Sequences, FiniteSets, TLC

\* ------------------------------------------------------------------ bounds
MaxIdLen == 2        \* longest connectionId query value enumerated
MaxFetches == 3      \* list requests issued by the Listing view in one run
MaxConnects == 2     \* "Connect App" clicks in one run
MaxSubmits == 2      \* form submissions in one run

\* ------------------------------------------------------------- JS values
Undefined == [def |-> FALSE]
Some(v) == [def |-> TRUE, val |-> v]
JsNull == [null |-> TRUE]

\* Characters of a connectionId: two plain ones, one that delimits query
\* parameters and one that starts the fragment.
Chars == {"a", "b", "&", "#"}
Reserved == {"&", "#"}

RECURSIVE StringsUpTo(_)
StringsUpTo(n) ==
    IF n = 0 THEN {<<>>}
    ELSE LET shorter == StringsUpTo(n - 1)
         IN  shorter \cup {Append(s, c) : s \in {t \in shorter : Len(t) = n - 1}, c \in Chars}

Ids == StringsUpTo(MaxIdLen)

\* req.query.connectionId as Next.js hands it to the handler: undefined when
\* the parameter is absent, else the decoded string (possibly empty).
QueryValues == {Undefined} \cup {Some(s) : s \in Ids}

\* JavaScript truthiness of a string-or-undefined value: !connectionId.
Truthy(q) == q.def /\ q.val # <<>>

\* ---------------------------------------------------- URL interpolation
\* `...contacts?connectionId=${connectionId}`: the template literal pastes
\* the characters of the value after "connectionId=", unescaped.
ContactsUrl(base, connectionId) ==
    [endpoint |-> base, query |-> <<"connectionId=">> \o connectionId]

\* What the receiving server reads back as the connectionId parameter of a
\* URL: the characters after "connectionId=" up to the first "&" (next
\* parameter) or "#" (fragment).
RECURSIVE UpToReserved(_)
UpToReserved(s) ==
    IF s = <<>> \/ Head(s) \in Reserved THEN <<>>
    ELSE <<Head(s)>> \o UpToReserved(Tail(s))

QueryParam(url) == UpToReserved(Tail(url.query))

\* ------------------------------------------------------ server settings
ApiKey == "ALLOY_API_KEY"
UserId == "ALLOY_USER_ID"
VendorContacts == "https://embedded.runalloy.com/2023-12/one/crm/contacts"
\* `https://embedded.runalloy.com/2023-12/users/${userId}/token`
VendorTokenUrl == [endpoint |-> "https://embedded.runalloy.com/2023-12/users/:userId/token",
                   userId |-> UserId]

\* -------------------------------------------------------- vendor payloads
Names == {"Ada", "Lovelace"}
Contact(id, f, l) == [id |-> id, firstName |-> f, lastName |-> l]
K1 == Contact("k1", "Ada", "Lovelace")
K2 == Contact("k2", "Lovelace", "Ada")
ContactLists == {<<>>, <<K1>>, <<K2, K1>>}
ListPayloads == {[contacts |-> l] : l \in ContactLists}
CreatedPayloads == {Contact("k3", f, l) : f \in Names, l \in Names}
VendorErrorBodies == {[message |-> "vendor: invalid connection"],
                      [message |-> "vendor: bad bearer ALLOY_API_KEY"]}
Tokens == {"jwt1", "jwt2"}
TokenPayloads == {[token |-> t] : t \in Tokens}
NoTokenPayloads == {[message |-> "ok"]}

\* An axios call either resolves with the vendor's 2xx payload or rejects:
\* with no response at all (network), or with the vendor's non-2xx response.
\* The rejection carries the request config, Authorization header included.
Resolved(data) == [kind |-> "ok", status |-> 200, data |-> data]
Rejected(kind, status, data) ==
    [kind |-> kind, status |-> status, data |-> data,
     config |-> [Authorization |-> <<"bearer", ApiKey>>]]
Rejections ==
    {Rejected("network", 0, JsNull)} \cup
    {Rejected("status", 401, [message |-> "vendor: invalid connection"]),
     Rejected("status", 500, [message |-> "vendor: bad bearer ALLOY_API_KEY"])}
ContactOutcomes ==
    {Resolved(d) : d \in ListPayloads \cup CreatedPayloads} \cup Rejections
TokenOutcomes ==
    {Resolved(d) : d \in TokenPayloads \cup NoTokenPayloads \cup {JsNull}} \cup Rejections

\* ------------------------------------------------------------- requests
Methods == {"GET", "POST", "PUT", "DELETE"}
Bodies == {[firstName |-> f, lastName |-> l] : f \in Names, l \in Names}
NoBody == [empty |-> TRUE]
\* Only a POST is given a body to forward.
BodiesOf(m) ==
    IF m = "POST" THEN {NoBody, [firstName |-> "Ada", lastName |-> "Lovelace"]} ELSE {NoBody}
ContactRequests ==
    UNION {{[method |-> m, connectionId |-> q, body |-> b] : q \in QueryValues, b \in BodiesOf(m)} :
              m \in Methods}

\* ================================================================ state
VARIABLES
    cPc,        \* contacts handler: "idle" | "await" (the axios call) | "done"
    cReq,       \* the request of the current contacts handler invocation
    cCalls,     \* outbound vendor calls made by that invocation, in order
    cOutcome,   \* how its vendor call settled
    cRes,       \* responses it sent, in order
    tPc,        \* token handler: "idle" | "await" | "done"
    tCalls,     \* outbound vendor calls made by the current token invocation
    tOutcome,   \* how its vendor call settled
    tRes,       \* responses it sent, in order
    connectionId,   \* Home: useState('')
    localStorage,   \* the browser's entry under the key 'connectionId'
    windowAlloy,    \* whether the embedded SDK script has loaded (window.Alloy)
    widgetToken,    \* the token last given to window.Alloy.setToken
    tokenPending,   \* fetchTokenAndAuthenticate calls awaiting /api/get-jwt-token
    authPending,    \* callbacks registered by authenticate, not yet called
    connects,       \* clicks on "Connect App" so far
    contacts,       \* ContactList: useState([])
    isLoading,      \* ContactList: useState(false)
    listPending,    \* fetchContacts calls awaiting GET /api/contacts
    fetches,        \* list requests issued so far
    arrivals,       \* completions of list requests, in the order they arrived
    firstName,      \* CreateContact: useState('')
    lastName,       \* CreateContact: useState('')
    createPending,  \* handleSubmit calls awaiting POST /api/contacts
    submits,        \* form submissions so far
    console         \* the last line written to the browser console

svars == <<connectionId, localStorage, windowAlloy, widgetToken, tokenPending,
           authPending, connects, contacts, isLoading, listPending, fetches,
           arrivals, firstName, lastName, createPending, submits, console>>

connectorVars == <<connectionId, localStorage, windowAlloy, widgetToken,
                   tokenPending, authPending, connects>>
listingVars == <<contacts, isLoading, listPending, fetches, arrivals>>
formVars == <<firstName, lastName, createPending, submits>>

gvars == <<cPc, cReq, cCalls, cOutcome, cRes, tPc, tCalls, tOutcome, tRes>>

NoReq == [none |-> TRUE]
NoOutcome == [kind |-> "none"]

\* ===================================== pages/api/contacts.js : handler
Response(status, allow, body) == [status |-> status, allow |-> allow, body |-> body]

\* if (!connectionId)
\* (fault: only an absent parameter is rejected, an empty one is let through)
MissingConnectionIdAbsentOnly(req) == ~req.connectionId.def
MissingConnectionId(req) == ~Truthy(req.connectionId)

\* return res.status(400).json({ error: 'ConnectionId is required' })
BadRequest == Response(400, <<>>, [error |-> "ConnectionId is required"])

\* case 'GET': / case 'POST':
ForwardedVerbs == {"GET", "POST"}

\* axios.get(url, {headers}) / axios.post(url, req.body, {headers})
VendorCall(req) ==
    [verb |-> req.method,
     url |-> ContactsUrl(VendorContacts, req.connectionId.val),
     body |-> IF req.method = "POST" THEN req.body ELSE NoBody,
     authorization |-> <<"bearer", ApiKey>>]

\* res.json(response.data): status stays at its default, 200
OkResponse(outcome) == Response(200, <<>>, outcome.data)

\* res.status(500).json({ error: 'Error fetching contacts' | 'Error creating contact' })
GenericError(method) ==
    IF method = "GET" THEN "Error fetching contacts" ELSE "Error creating contact"
\* (fault: the vendor's status and error body are forwarded)
ErrorResponseForwarding(method, outcome) ==
    Response(IF outcome.status = 0 THEN 500 ELSE outcome.status, <<>>,
             IF outcome.data = JsNull THEN [error |-> GenericError(method)] ELSE outcome.data)
ErrorResponse(method, outcome) == Response(500, <<>>, [error |-> GenericError(method)])

\* try { ... res.json(response.data) } catch { res.status(500).json(...) }
Settled(req, outcome) ==
    IF outcome.kind = "ok" THEN OkResponse(outcome) ELSE ErrorResponse(req.method, outcome)

\* res.setHeader('Allow', ['GET', 'POST']); res.status(405).end(`Method ${method} Not Allowed`)
\* (fault: the Allow header is left out)
MethodNotAllowedNoHeader(method) ==
    Response(405, <<>>, [text |-> <<"Method", method, "Not Allowed">>])
MethodNotAllowed(method) ==
    Response(405, <<"GET", "POST">>, [text |-> <<"Method", method, "Not Allowed">>])

\* The handler from its entry to its first await or its return.
ContactsReceive(req) ==
    /\ cPc \in {"idle", "done"}
    /\ cReq' = req
    /\ cOutcome' = NoOutcome
    /\ IF MissingConnectionId(req)
         THEN cCalls' = <<>> /\ cRes' = <<BadRequest>> /\ cPc' = "done"
       ELSE IF req.method \in ForwardedVerbs
         THEN cCalls' = <<VendorCall(req)>> /\ cRes' = <<>> /\ cPc' = "await"
       ELSE cCalls' = <<>> /\ cRes' = <<MethodNotAllowed(req.method)>> /\ cPc' = "done"
    /\ UNCHANGED <<tPc, tCalls, tOutcome, tRes>>
    /\ UNCHANGED svars

\* (fault: a rejected vendor call is tried once more before answering)
ContactsSettleRetrying(outcome) ==
    /\ cPc = "await"
    /\ IF outcome.kind # "ok" /\ Len(cCalls) < 2
         THEN /\ cCalls' = Append(cCalls, VendorCall(cReq))
              /\ UNCHANGED <<cOutcome, cRes, cPc>>
         ELSE /\ cOutcome' = outcome
              /\ cRes' = Append(cRes, Settled(cReq, outcome))
              /\ cPc' = "done"
              /\ UNCHANGED cCalls
    /\ UNCHANGED <<cReq, tPc, tCalls, tOutcome, tRes>>
    /\ UNCHANGED svars

\* The awaited axios call settles: the rest of the try block, or the catch.
ContactsSettle(outcome) ==
    /\ cPc = "await"
    /\ cOutcome' = outcome
    /\ cRes' = Append(cRes, Settled(cReq, outcome))
    /\ cPc' = "done"
    /\ UNCHANGED <<cReq, cCalls, tPc, tCalls, tOutcome, tRes>>
    /\ UNCHANGED svars

\* The whole handler as a function of its request and of how the vendor call
\* settles (the outcome is not consulted when no call is made).
contactsHandler(req, outcome) ==
    IF MissingConnectionId(req) THEN BadRequest
    ELSE IF req.method \in ForwardedVerbs THEN Settled(req, outcome)
    ELSE MethodNotAllowed(req.method)

\* ================================== pages/api/get-jwt-token.js : handler
TokenCall == [verb |-> "GET", url |-> VendorTokenUrl, authorization |-> <<"Bearer", ApiKey>>]

\* obj.name in JavaScript: undefined when the object has no such field.
Field(obj, name) == IF name \in DOMAIN obj THEN Some(obj[name]) ELSE Undefined

\* res.json({ token: v }): JSON.stringify leaves an undefined field out.
EmptyObject == [emptyObject |-> TRUE]
JsonToken(v) == IF v.def THEN [token |-> v.val] ELSE EmptyObject

TokenFailure == Response(500, <<>>, [error |-> "Error generating JWT token"])

\* res.status(200).json({ token: response.data.token })
\* (fault: a token kept from an earlier call is sent instead)
TokenOkCached(data) == Response(200, <<>>, [token |-> "jwt1"])
TokenOk(data) == Response(200, <<>>, JsonToken(Field(data, "token")))

\* try { await axios.get; res.status(200).json(...) } catch { res.status(500)... }
\* Reading .token of null throws inside the try and lands in the catch.
TokenSettled(outcome) ==
    IF outcome.kind = "ok" /\ outcome.data # JsNull THEN TokenOk(outcome.data)
    ELSE TokenFailure

TokenReceive ==
    /\ tPc \in {"idle", "done"}
    /\ tCalls' = <<TokenCall>>
    /\ tOutcome' = NoOutcome
    /\ tRes' = <<>>
    /\ tPc' = "await"
    /\ UNCHANGED <<cPc, cReq, cCalls, cOutcome, cRes>>
    /\ UNCHANGED svars

TokenSettle(outcome) ==
    /\ tPc = "await"
    /\ tOutcome' = outcome
    /\ tRes' = Append(tRes, TokenSettled(outcome))
    /\ tPc' = "done"
    /\ UNCHANGED <<tCalls, cPc, cReq, cCalls, cOutcome, cRes>>
    /\ UNCHANGED svars

tokenHandler(outcome) == TokenSettled(outcome)

\* ============================================== the two handlers, served
HandlersIdle ==
    /\ cPc = "idle" /\ cReq = NoReq /\ cCalls = <<>> /\ cOutcome = NoOutcome /\ cRes = <<>>
    /\ tPc = "idle" /\ tCalls = <<>> /\ tOutcome = NoOutcome /\ tRes = <<>>

\* The page as first rendered: every useState at its initial value, nothing
\* in flight, nothing stored.
PageLoaded ==
    /\ connectionId = <<>>
    /\ localStorage = Undefined
    /\ windowAlloy = FALSE
    /\ widgetToken = [set |-> FALSE]
    /\ tokenPending = 0
    /\ authPending = 0
    /\ connects = 0
    /\ contacts = <<>>
    /\ isLoading = FALSE
    /\ listPending = {}
    /\ fetches = 0
    /\ arrivals = <<>>
    /\ firstName = ""
    /\ lastName = ""
    /\ createPending = {}
    /\ submits = 0
    /\ console = [level |-> "none"]

GatewayInit == HandlersIdle /\ PageLoaded

GatewayNext ==
    \/ \E req \in ContactRequests : ContactsReceive(req)
    \/ \E outcome \in ContactOutcomes : ContactsSettle(outcome)
    \/ TokenReceive
    \/ \E outcome \in TokenOutcomes : TokenSettle(outcome)

vars == <<gvars, svars>>

SpecGateway == GatewayInit /\ [][GatewayNext]_vars

\* ================================================= claims: the gateway
GatewayTypeOK ==
    /\ cPc \in {"idle", "await", "done"}
    /\ tPc \in {"idle", "await", "done"}
    /\ cPc = "done" => Len(cRes) = 1
    /\ tPc = "done" => Len(tRes) = 1

ConnectionIdMissing == ~cReq.connectionId.def \/ cReq.connectionId.val = <<>>
ConnectionIdPresent == cReq.connectionId.def /\ Len(cReq.connectionId.val) > 0

\* C1: a request to /api/contacts whose connectionId is absent or empty is
\* answered 400 with an error body, whatever its verb, and the invocation
\* makes no outbound vendor call.
C1_MissingConnectionIs400 ==
    (cPc # "idle" /\ ConnectionIdMissing) =>
        /\ cPc = "done"
        /\ cCalls = <<>>
        /\ Len(cRes) = 1
        /\ cRes[1].status = 400
        /\ DOMAIN cRes[1].body = {"error"}

C1_Witness ==
    /\ cPc = "done"
    /\ cReq.method = "DELETE"
    /\ cReq.connectionId = Some(<<>>)
    /\ cRes[1].status = 400
    /\ cCalls = <<>>

\* C2 as stated: every request with a verb other than GET or POST is
\* answered 405 with an Allow header listing GET and POST, with or without a
\* connectionId.
C2_OtherVerbAlways405 ==
    (cPc = "done" /\ cReq.method \notin {"GET", "POST"}) =>
        cRes[1].status = 405 /\ cRes[1].allow = <<"GET", "POST">>

\* C2 amended: a request with a verb other than GET or POST and a non-empty
\* connectionId is answered 405 with an Allow header listing GET and POST,
\* and no vendor call is made; without a connectionId the answer is 400.
C2_OtherVerbWithConnection405 ==
    (cPc # "idle" /\ cReq.method \notin {"GET", "POST"}) =>
        /\ cPc = "done"
        /\ cCalls = <<>>
        /\ Len(cRes) = 1
        /\ IF ConnectionIdPresent
             THEN cRes[1].status = 405 /\ cRes[1].allow = <<"GET", "POST">>
             ELSE cRes[1].status = 400

C2_Witness ==
    /\ cPc = "done"
    /\ cReq.method = "PUT"
    /\ cReq.connectionId = Some(<<"a">>)
    /\ cRes[1].status = 405
    /\ cRes[1].allow = <<"GET", "POST">>

VendorSuppliedToken == tOutcome.kind = "ok" /\ "token" \in DOMAIN tOutcome.data

\* C3 as stated: the token handler answers 500 with the generic error body
\* when the vendor is unreachable, when it answers a non-success status and
\* when its success response has no token field; it answers 200 {token}
\* only when the vendor supplied a token.
C3_TokenFailuresCollapse ==
    tPc = "done" =>
        IF VendorSuppliedToken
          THEN tRes[1].status = 200 /\ DOMAIN tRes[1].body = {"token"}
          ELSE tRes[1] = Response(500, <<>>, [error |-> "Error generating JWT token"])

\* C4: for GET or POST with a connectionId, a failed vendor call is answered
\* 500 with the fixed message of the operation; the body carries neither the
\* vendor's error body nor the API key.
C4_VendorFailureIsGeneric500 ==
    (cPc = "done" /\ ConnectionIdPresent /\ cReq.method \in {"GET", "POST"}
        /\ cOutcome.kind # "ok") =>
        /\ Len(cRes) = 1
        /\ cRes[1].status = 500
        /\ cRes[1].body =
              [error |-> IF cReq.method = "GET" THEN "Error fetching contacts"
                                                ELSE "Error creating contact"]
        /\ cRes[1].body # cOutcome.data
        /\ cRes[1].body.error # ApiKey
        /\ cRes[1].body.error \notin {d.message : d \in VendorErrorBodies}

C4_Witness ==
    /\ cPc = "done"
    /\ cReq.method = "POST"
    /\ cOutcome.kind = "status"
    /\ cOutcome.data = [message |-> "vendor: bad bearer ALLOY_API_KEY"]
    /\ cRes[1] = Response(500, <<>>, [error |-> "Error creating contact"])

\* C5: when the token handler answers 200 with a token, that token is the
\* very value of the token field of the vendor's response.
C5_TokenVerbatim ==
    (tPc = "done" /\ tRes[1].status = 200 /\ "token" \in DOMAIN tRes[1].body) =>
        /\ VendorSuppliedToken
        /\ tRes[1].body.token = tOutcome.data.token

C5_Witness ==
    /\ tPc = "done"
    /\ tOutcome = Resolved([token |-> "jwt2"])
    /\ tRes[1] = Response(200, <<>>, [token |-> "jwt2"])

\* C6 as stated: for GET or POST with a connectionId and a successful vendor
\* call, the vendor is given the caller's connectionId (and for POST the
\* request body) unchanged, and the vendor's payload is returned verbatim
\* with status 200.
C6_PassThrough ==
    (cPc = "done" /\ ConnectionIdPresent /\ cReq.method \in {"GET", "POST"}
        /\ cOutcome.kind = "ok") =>
        /\ Len(cCalls) = 1
        /\ QueryParam(cCalls[1].url) = cReq.connectionId.val
        /\ cReq.method = "POST" => cCalls[1].body = cReq.body
        /\ cRes = <<Response(200, <<>>, cOutcome.data)>>

\* ====================================================== the browser side
\* What axios in the browser makes of a gateway answer: the call resolves on
\* a delivered 2xx response and rejects otherwise.
Resolves(delivered, res) == delivered /\ res.status >= 200 /\ res.status < 300

Log(level, msg) == [level |-> level, msg |-> msg]

\* Identifiers the widget delivers on a completed linking: non-empty strings
\* without URL delimiters.
WidgetIds == {s \in Ids : Len(s) = 1 /\ s[1] \notin Reserved}

\* The argument of the authenticate callback.
CallbackData ==
    {[success |-> TRUE, connectionId |-> c] : c \in WidgetIds} \cup
    {[success |-> FALSE, connectionId |-> c] : c \in {<<>>, <<"b">>}}

\* ------------------------------------------------- page.js : Home (render)
\* The child element Home puts in a section: {connectionId && <View .../>}
Mounted(cid) == cid # <<>>

\* ContactList's return value for its props and state.
ContactListView(cid, loading, list) ==
    IF cid = <<>> THEN "prompt"
    ELSE IF loading THEN "loading"
    ELSE IF Len(list) > 0 THEN "list"
    ELSE "empty"

\* What the "Step 2: List Contacts" section shows.
ListingSection ==
    IF Mounted(connectionId) THEN ContactListView(connectionId, isLoading, contacts)
    ELSE "nothing"

\* What the "Step 3: Create a Contact" section shows.
FormSection == IF Mounted(connectionId) THEN "form" ELSE "nothing"

\* The refresh button exists only in the branch rendered when not loading.
RefreshEnabled == ListingSection \in {"list", "empty"}

\* ------------------------------------------------------------ ConnectApp
\* script.onload
SdkLoaded ==
    /\ ~windowAlloy
    /\ windowAlloy' = TRUE
    /\ console' = Log("log", "Alloy SDK loaded")
    /\ UNCHANGED <<connectionId, localStorage, widgetToken, tokenPending, authPending, connects>>
    /\ UNCHANGED <<listingVars, formVars, gvars>>

\* onClick={fetchTokenAndAuthenticate}, up to its await
ConnectClick ==
    /\ connects < MaxConnects
    /\ connects' = connects + 1
    /\ tokenPending' = tokenPending + 1
    /\ UNCHANGED <<connectionId, localStorage, windowAlloy, widgetToken, authPending, console>>
    /\ UNCHANGED <<listingVars, formVars, gvars>>

\* fetchTokenAndAuthenticate after its await: the gateway's answer for the
\* vendor outcome, delivered to the browser or lost on the way.
TokenResponse(outcome, delivered) ==
    /\ tokenPending > 0
    /\ tokenPending' = tokenPending - 1
    /\ LET res == tokenHandler(outcome)
       IN  IF Resolves(delivered, res)
             THEN IF windowAlloy
                    THEN /\ widgetToken' = [set |-> TRUE, token |-> Field(res.body, "token")]
                         /\ authPending' = authPending + 1
                         /\ UNCHANGED console
                    ELSE /\ console' = Log("error", "Alloy SDK not found")
                         /\ UNCHANGED <<widgetToken, authPending>>
             ELSE /\ console' = Log("error", "Error fetching JWT token:")
                  /\ UNCHANGED <<widgetToken, authPending>>
    /\ UNCHANGED <<connectionId, localStorage, windowAlloy, connects>>
    /\ UNCHANGED <<listingVars, formVars, gvars>>

\* if (data.success)
\* (fault: the success flag is not looked at)
CallbackAcceptsAny(data) == TRUE
CallbackAccepts(data) == data.success

\* localStorage.setItem('connectionId', data.connectionId)
\* (fault: the identifier is not persisted)
StoredSkipped(old, data) == old
Stored(old, data) == Some(data.connectionId)

\* The callback given to window.Alloy.authenticate, with Home's
\* handleConnectionEstablished and the render it causes: a changed, truthy
\* connectionId (re)runs ContactList's effect, which calls fetchContacts.
AuthCallback(data) ==
    /\ authPending > 0
    /\ authPending' = authPending - 1
    /\ IF CallbackAccepts(data)
         THEN /\ localStorage' = Stored(localStorage, data)
              /\ connectionId' = data.connectionId
              /\ IF data.connectionId # connectionId /\ Mounted(data.connectionId)
                   THEN /\ fetches < MaxFetches
                        /\ fetches' = fetches + 1
                        /\ isLoading' = TRUE
                        /\ listPending' = listPending \cup
                              {[n |-> fetches + 1, cid |-> data.connectionId]}
                        /\ UNCHANGED <<contacts, arrivals>>
                   ELSE UNCHANGED listingVars
         ELSE UNCHANGED <<localStorage, connectionId, listingVars>>
    /\ UNCHANGED <<windowAlloy, widgetToken, tokenPending, connects, console>>
    /\ UNCHANGED <<formVars, gvars>>

\* ----------------------------------------------------------- ContactList
\* axios.get(`/api/contacts?connectionId=${connectionId}`) as the gateway
\* receives it.
ListRequest(cid) ==
    [method |-> "GET",
     connectionId |-> Some(QueryParam(ContactsUrl("/api/contacts", cid))),
     body |-> NoBody]

\* What the vendor may answer to a list call.
ListOutcomes == {Resolved(d) : d \in ListPayloads} \cup Rejections

\* onClick={fetchContacts} on the refresh button, up to its await
Refresh ==
    /\ RefreshEnabled
    /\ fetches < MaxFetches
    /\ fetches' = fetches + 1
    /\ isLoading' = TRUE
    /\ listPending' = listPending \cup {[n |-> fetches + 1, cid |-> connectionId]}
    /\ UNCHANGED <<contacts, arrivals, console>>
    /\ UNCHANGED <<connectorVars, formVars, gvars>>

\* (fault: a completion that arrives after one of a later request is dropped)
ListResponseLatestOnly(r, outcome, delivered) ==
    /\ r \in listPending
    /\ listPending' = listPending \ {r}
    /\ LET res == contactsHandler(ListRequest(r.cid), outcome)
           stale == \E i \in 1..Len(arrivals) : arrivals[i].n > r.n
       IN  /\ IF Resolves(delivered, res)
                THEN /\ contacts' = IF stale THEN contacts ELSE res.body.contacts
                     /\ isLoading' = FALSE
                     /\ UNCHANGED console
                ELSE /\ console' = Log("error", "Error fetching contacts:")
                     /\ isLoading' = FALSE
                     /\ UNCHANGED contacts
           /\ arrivals' = Append(arrivals,
                  [n |-> r.n, cid |-> r.cid, ok |-> Resolves(delivered, res)])
    /\ UNCHANGED fetches
    /\ UNCHANGED <<connectorVars, formVars, gvars>>

\* (fault: the catch empties the displayed list)
ListResponseClearing(r, outcome, delivered) ==
    /\ r \in listPending
    /\ listPending' = listPending \ {r}
    /\ LET res == contactsHandler(ListRequest(r.cid), outcome)
       IN  /\ IF Resolves(delivered, res)
                THEN /\ contacts' = res.body.contacts
                     /\ isLoading' = FALSE
                     /\ UNCHANGED console
                ELSE /\ console' = Log("error", "Error fetching contacts:")
                     /\ isLoading' = FALSE
                     /\ contacts' = <<>>
           /\ arrivals' = Append(arrivals,
                  [n |-> r.n, cid |-> r.cid, ok |-> Resolves(delivered, res)])
    /\ UNCHANGED fetches
    /\ UNCHANGED <<connectorVars, formVars, gvars>>

\* fetchContacts after its await
ListResponse(r, outcome, delivered) ==
    /\ r \in listPending
    /\ listPending' = listPending \ {r}
    /\ LET res == contactsHandler(ListRequest(r.cid), outcome)
       IN  /\ IF Resolves(delivered, res)
                THEN /\ contacts' = res.body.contacts
                     /\ isLoading' = FALSE
                     /\ UNCHANGED console
                ELSE /\ console' = Log("error", "Error fetching contacts:")
                     /\ isLoading' = FALSE
                     /\ UNCHANGED contacts
           /\ arrivals' = Append(arrivals,
                  [n |-> r.n, cid |-> r.cid, ok |-> Resolves(delivered, res)])
    /\ UNCHANGED fetches
    /\ UNCHANGED <<connectorVars, formVars, gvars>>

\* --------------------------------------------------------- CreateContact
FieldValues == {""} \cup Names

\* onChange={e => setFirstName(e.target.value)} / setLastName
TypeFirstName(v) ==
    /\ FormSection = "form"
    /\ firstName' = v
    /\ UNCHANGED <<lastName, createPending, submits, console>>
    /\ UNCHANGED <<connectorVars, listingVars, gvars>>

TypeLastName(v) ==
    /\ FormSection = "form"
    /\ lastName' = v
    /\ UNCHANGED <<firstName, createPending, submits, console>>
    /\ UNCHANGED <<connectorVars, listingVars, gvars>>

\* axios.post(`/api/contacts?connectionId=${connectionId}`, {firstName, lastName})
\* as the gateway receives it.
CreateRequest(cid, body) ==
    [method |-> "POST",
     connectionId |-> Some(QueryParam(ContactsUrl("/api/contacts", cid))),
     body |-> body]

CreateOutcomes == {Resolved(d) : d \in CreatedPayloads} \cup Rejections

\* onSubmit={handleSubmit}, up to its await.  Both inputs are `required`, so
\* the browser submits the form only when neither is empty.
Submit ==
    /\ FormSection = "form"
    /\ firstName # "" /\ lastName # ""
    /\ submits < MaxSubmits
    /\ submits' = submits + 1
    /\ createPending' = createPending \cup
          {[n |-> submits + 1, cid |-> connectionId,
            body |-> [firstName |-> firstName, lastName |-> lastName]]}
    /\ UNCHANGED <<firstName, lastName, console>>
    /\ UNCHANGED <<connectorVars, listingVars, gvars>>

\* setFirstName(''); setLastName('') in the try, nothing in the catch
\* (fault: the fields are cleared in the catch as well)
FieldAfterCreateAlwaysCleared(ok, field) == ""
FieldAfterCreate(ok, field) == IF ok THEN "" ELSE field

\* handleSubmit after its await
CreateResponse(r, outcome, delivered) ==
    /\ r \in createPending
    /\ createPending' = createPending \ {r}
    /\ LET res == contactsHandler(CreateRequest(r.cid, r.body), outcome)
           ok == Resolves(delivered, res)
       IN  /\ console' = IF ok THEN Log("log", "Contact added:")
                               ELSE Log("error", "Error adding contact:")
           /\ firstName' = FieldAfterCreate(ok, firstName)
           /\ lastName' = FieldAfterCreate(ok, lastName)
    /\ UNCHANGED submits
    /\ UNCHANGED <<connectorVars, listingVars, gvars>>

\* ------------------------------------------------- the page in a browser
ShellInit == HandlersIdle /\ PageLoaded

\* Connector and Listing view, from the first render on.
ShellNext ==
    \/ SdkLoaded
    \/ ConnectClick
    \/ \E outcome \in TokenOutcomes, delivered \in BOOLEAN : TokenResponse(outcome, delivered)
    \/ \E data \in CallbackData : AuthCallback(data)
    \/ Refresh
    \/ \E r \in listPending, outcome \in ListOutcomes, delivered \in BOOLEAN :
          ListResponse(r, outcome, delivered)

SpecShell == ShellInit /\ [][ShellNext]_vars

\* A page on which a connection has been established and the activation-time
\* fetch of the Listing view has completed (a state SpecShell reaches, see
\* ConnectedPageReached): the Creation view is mounted, its fields at their
\* initial values.
ConnectedPage ==
    /\ connectionId \in WidgetIds
    /\ localStorage = Some(connectionId)
    /\ windowAlloy = TRUE
    /\ widgetToken = [set |-> TRUE, token |-> Some("jwt1")]
    /\ tokenPending = 0
    /\ authPending = 0
    /\ connects = 1
    /\ contacts \in ContactLists
    /\ isLoading = FALSE
    /\ listPending = {}
    /\ fetches = 1
    /\ arrivals = <<[n |-> 1, cid |-> connectionId, ok |-> TRUE]>>
    /\ firstName = ""
    /\ lastName = ""
    /\ createPending = {}
    /\ submits = 0
    /\ console = Log("log", "Alloy SDK loaded")

FormInit == HandlersIdle /\ ConnectedPage

\* The Creation view on a connected page.
FormNext ==
    \/ \E v \in FieldValues : TypeFirstName(v)
    \/ \E v \in FieldValues : TypeLastName(v)
    \/ Submit
    \/ \E r \in createPending, outcome \in CreateOutcomes, delivered \in BOOLEAN :
          CreateResponse(r, outcome, delivered)

SpecForm == FormInit /\ [][FormNext]_vars

\* ================================================== claims: the browser
ShellTypeOK ==
    /\ connectionId \in {<<>>} \cup WidgetIds
    /\ tokenPending \in 0..MaxConnects
    /\ authPending \in 0..MaxConnects
    /\ fetches \in 0..MaxFetches
    /\ submits \in 0..MaxSubmits
    /\ \A r \in listPending : r.cid \in WidgetIds
    /\ contacts \in ContactLists
    /\ firstName \in FieldValues /\ lastName \in FieldValues

\* SpecForm's initial states are states SpecShell reaches.
ConnectedPageReached == ConnectedPage /\ connectionId = <<"b">> /\ contacts = <<K2, K1>>

\* C7 as stated: whenever Home holds no connection identifier, the Listing
\* section shows the "complete Step 1" prompt, and the Listing view has
\* issued no list request and has none outstanding.
C7_NoConnectionShowsPrompt ==
    connectionId = <<>> =>
        /\ ListingSection = "prompt"
        /\ fetches = 0
        /\ listPending = {}

\* C8 as stated: whenever a list request of the Listing view is outstanding,
\* the loading indicator is shown (isLoading is true).
C8_LoadingWhileOutstanding ==
    listPending # {} => isLoading /\ ListingSection = "loading"

\* C9: when a create request completes successfully both form fields become
\* empty; when it fails both fields keep the values they held just before
\* the completion.
C9_FieldsAfterCompletion ==
    [][\A r \in createPending, outcome \in CreateOutcomes, delivered \in BOOLEAN :
          CreateResponse(r, outcome, delivered) =>
              IF delivered /\ outcome.kind = "ok"
                THEN firstName' = "" /\ lastName' = ""
                ELSE firstName' = firstName /\ lastName' = lastName]_vars

C9_Witness ==
    /\ console = Log("error", "Error adding contact:")
    /\ createPending = {}
    /\ submits = 1
    /\ firstName = "Ada"
    /\ lastName = "Lovelace"

\* C10: a widget callback that reports success with identifier c leaves c in
\* Home's state and in local storage, with the Listing and Creation views
\* mounted; a callback that does not report success changes neither Home's
\* identifier nor local storage.
C10_CallbackStoresOnSuccessOnly ==
    [][\A data \in CallbackData :
          AuthCallback(data) =>
              IF data.success
                THEN /\ connectionId' = data.connectionId
                     /\ localStorage' = Some(data.connectionId)
                     /\ ListingSection' \in {"loading", "list", "empty"}
                     /\ FormSection' = "form"
                ELSE /\ connectionId' = connectionId
                     /\ localStorage' = localStorage]_vars

C10_Witness ==
    /\ connectionId = <<"b">>
    /\ localStorage = Some(<<"b">>)
    /\ \E r \in listPending : r.cid = <<"a">>
    /\ ListingSection = "loading"
    /\ FormSection = "form"

\* C11: nothing reconciles overlapping list requests: a successful completion
\* always replaces the displayed list by its own payload, whatever was issued
\* or has arrived before, and the displayed list changes in no other way; so
\* the list displayed is that of the last successful completion to arrive.
C11_LastArrivalWins ==
    [][/\ \A r \in listPending, outcome \in ListOutcomes, delivered \in BOOLEAN :
            (ListResponse(r, outcome, delivered) /\ delivered /\ outcome.kind = "ok") =>
                contacts' = outcome.data.contacts
       /\ contacts' # contacts =>
            /\ Len(arrivals') = Len(arrivals) + 1
            /\ arrivals'[Len(arrivals')].ok]_vars

\* Two requests were outstanding at once and the later one completed first:
\* the list on display is the one returned to the earlier request.
C11_Witness ==
    /\ arrivals = <<[n |-> 2, cid |-> <<"a">>, ok |-> TRUE],
                    [n |-> 1, cid |-> <<"b">>, ok |-> TRUE]>>
    /\ listPending = {}
    /\ contacts = <<K1>>
    /\ ~isLoading

\* ------------------------------------------- the components, one at a time
\* Connector and Listing view as on ConnectedPage.
ConnectedViews ==
    /\ connectionId \in WidgetIds
    /\ localStorage = Some(connectionId)
    /\ windowAlloy = TRUE
    /\ widgetToken = [set |-> TRUE, token |-> Some("jwt1")]
    /\ tokenPending = 0
    /\ authPending = 0
    /\ connects = 1
    /\ contacts \in ContactLists
    /\ isLoading = FALSE
    /\ listPending = {}
    /\ fetches = 1
    /\ arrivals = <<[n |-> 1, cid |-> connectionId, ok |-> TRUE]>>

\* The Creation view untouched.
FormUntouched ==
    /\ firstName = ""
    /\ lastName = ""
    /\ createPending = {}
    /\ submits = 0

\* Handlers and views share no state, and the Creation view only reads
\* connectionId.  Here each takes its steps while the others are at rest: a
\* handler while the page is as loaded and the other handler idle, Connector
\* and Listing view while the form is untouched, the form on a connected page.
ComponentsNext ==
    \/ /\ PageLoaded /\ tPc = "idle"
       /\ \/ \E req \in ContactRequests : ContactsReceive(req)
          \/ \E outcome \in ContactOutcomes : ContactsSettle(outcome)
    \/ /\ PageLoaded /\ cPc = "idle"
       /\ \/ TokenReceive
          \/ \E outcome \in TokenOutcomes : TokenSettle(outcome)
    \/ HandlersIdle /\ FormUntouched /\ ShellNext
    \/ HandlersIdle /\ ConnectedViews /\ FormNext

SpecComponents == ShellInit /\ [][ComponentsNext]_vars

\* One vendor call and one response per handler invocation.
HandlerAttempts ==
    /\ Len(tCalls) <= 1 /\ Len(tRes) <= 1
    /\ Len(cCalls) <= 1 /\ Len(cRes) <= 1
    /\ tPc = "await" => Len(tCalls) = 1 /\ Len(tRes) = 0
    /\ tPc = "done" => Len(tCalls) = 1 /\ Len(tRes) = 1
    /\ cPc = "await" => Len(cCalls) = 1 /\ Len(cRes) = 0
    /\ cPc = "done" =>
          /\ Len(cRes) = 1
          /\ Len(cCalls) = 1 <=> (ConnectionIdPresent /\ cReq.method \in {"GET", "POST"})

\* A view whose request failed issues no request in the step that handles
\* the failure: the failed request leaves the outstanding ones and nothing
\* joins them.
ViewsDoNotReissue ==
    /\ \A outcome \in TokenOutcomes, delivered \in BOOLEAN :
          (TokenResponse(outcome, delivered)
              /\ ~(delivered /\ outcome.kind = "ok" /\ outcome.data # JsNull)) =>
              /\ tokenPending' = tokenPending - 1
              /\ UNCHANGED <<authPending, connects, listPending, fetches, createPending, submits>>
    /\ \A r \in listPending, outcome \in ListOutcomes, delivered \in BOOLEAN :
          (ListResponse(r, outcome, delivered) /\ ~(delivered /\ outcome.kind = "ok")) =>
              /\ listPending' = listPending \ {r}
              /\ UNCHANGED <<fetches, tokenPending, authPending, connects, createPending, submits>>
    /\ \A r \in createPending, outcome \in CreateOutcomes, delivered \in BOOLEAN :
          (CreateResponse(r, outcome, delivered) /\ ~(delivered /\ outcome.kind = "ok")) =>
              /\ createPending' = createPending \ {r}
              /\ UNCHANGED <<submits, tokenPending, authPending, connects, listPending, fetches>>

\* C12: no retry anywhere: a token handler invocation makes exactly one vendor
\* call, a contacts handler invocation at most one (exactly one when the
\* connectionId is present and the verb is GET or POST), every invocation
\* sends exactly one response, and neither a handler nor a view issues a call
\* again after a failure.
C12_SingleAttempt == [][HandlerAttempts' /\ ViewsDoNotReissue]_vars

C12_Witness ==
    /\ cPc = "done"
    /\ cReq.method = "GET"
    /\ cOutcome.kind = "network"
    /\ Len(cCalls) = 1
    /\ cRes = <<Response(500, <<>>, [error |-> "Error fetching contacts"])>>

\* C13: a failed gateway call leaves the page as it was: when the token
\* request fails, or the SDK is absent, the widget is given no token and is
\* not asked to authenticate, and Home's identifier and local storage are
\* unchanged; when a list request fails the displayed list is unchanged and
\* the loading flag is false afterwards.
C13_FailureLeavesPriorState ==
    [][/\ \A outcome \in TokenOutcomes, delivered \in BOOLEAN :
            (TokenResponse(outcome, delivered)
                /\ (~windowAlloy
                      \/ ~(delivered /\ outcome.kind = "ok" /\ outcome.data # JsNull))) =>
                UNCHANGED <<widgetToken, authPending, connectionId, localStorage>>
       /\ \A r \in listPending, outcome \in ListOutcomes, delivered \in BOOLEAN :
            (ListResponse(r, outcome, delivered) /\ ~(delivered /\ outcome.kind = "ok")) =>
                contacts' = contacts /\ isLoading' = FALSE]_vars

\* A list is on display, a later refresh has failed, and the list is still
\* there, the loading flag back to false.
C13_Witness ==
    /\ Len(arrivals) = 2
    /\ arrivals[1].ok /\ ~arrivals[2].ok
    /\ console = Log("error", "Error fetching contacts:")
    /\ contacts = <<K2, K1>>
    /\ ~isLoading
    /\ listPending = {}

\* Position in arrivals of the response whose list is on display: the last
\* one that resolved.
LastOk ==
    CHOOSE i \in 1..Len(arrivals) :
        arrivals[i].ok /\ \A j \in (i + 1)..Len(arrivals) : ~arrivals[j].ok

\* C14: whenever the listing is mounted, not loading and shows a non-empty
\* list, that list came from a fetch issued with the identifier Home holds now.
C14_ListBelongsToCurrentId ==
    (Mounted(connectionId) /\ ~isLoading /\ contacts # <<>>) =>
        /\ \E i \in 1..Len(arrivals) : arrivals[i].ok
        /\ arrivals[LastOk].cid = connectionId

\* C15: whenever Home's connectionId is non-empty it equals the value under
\* the 'connectionId' key of local storage, and Home's connectionId changes
\* only in a success callback, which writes both.
C15_IdentifierMatchesStorage ==
    [][/\ connectionId' # <<>> => localStorage' = Some(connectionId')
       /\ connectionId' # connectionId =>
            \E data \in CallbackData :
                /\ AuthCallback(data)
                /\ data.success
                /\ connectionId' = data.connectionId
                /\ localStorage' = Some(data.connectionId)]_vars

\* A second linking has replaced 'b' by 'a' in Home and in local storage.
C15_Witness ==
    /\ connects = 2
    /\ connectionId = <<"a">>
    /\ localStorage = Some(<<"a">>)
    /\ Len(arrivals) > 0
    /\ arrivals[1].cid = <<"b">>

====
